---- MODULE Spec2Model ----
(***************************************************************************)
(* A model of the frame profiler of alien-invasion                         *)
(* (src/performance_profiler.py, class PerformanceProfiler) and of the     *)
(* game loop that drives it (src/alien_invasion_optimized.py, class        *)
(* OptimizedAlienInvasion).                                                *)
(*                                                                         *)
(* Spec       any sequence of calls on one profiler                        *)
(* GameSpec   run_game, where psutil answers and report paths are writable *)
(* GameLive   GameSpec, with the loop never stopping on its own            *)
(* FaultySpec run_game, where psutil may raise and paths may be unwritable *)
(* CacheSpec  any sequence of _get_cached_text calls and FPS-text removals *)
(* SettingsSpec  _validate_and_optimize_settings on settings of any size   *)
(*                                                                         *)
(* Time.  time.time() is read as a whole number of ticks of                *)
(* 1/TicksPerSecond seconds, so a float number of seconds is the exact     *)
(* rational ticks/TicksPerSecond.  Successive readings never decrease.     *)
(*                                                                         *)
(* Floats.  A float is an exact rational [num, den].  A division whose     *)
(* divisor is zero yields den = 0: that value stands for the               *)
(* ZeroDivisionError Python raises there.                                  *)
(***************************************************************************)
EXTENDS Integers, Sequences, FiniteSets, TLC

VARIABLES
    profiler,     \* the PerformanceProfiler object: one field per attribute
    now,          \* the last value time.time() returned
    startClocks,  \* history: the clock value read by each start_frame call
    readings,     \* history: the <<memory_mb, cpu_percent>> read by each end_frame call
    out,          \* the last call: its name and the error it raised
    game          \* the OptimizedAlienInvasion object and where run_game stands

vars == <<profiler, now, startClocks, readings, out, game>>

----------------------------------------------------------------------------
(* Bounds of the model *)

MaxSamples == 2      \* max_samples is drawn from 1..MaxSamples
MaxFrames == 3       \* start_frame is called at most MaxFrames times
MaxEnds == 2         \* end_frame is called at most MaxEnds times
MaxTime == 2         \* the clock stops at MaxTime (in the game: after MaxTime seconds)
MaxEvents == 1       \* pygame.event.get() returns at most MaxEvents events
MaxLimit == 11       \* small limits of the text cache are 10..MaxLimit
MaxOverflow == 12    \* texts requested: the cache's limit and MaxOverflow more

(* The resolution of the clock.  One tick is the frame period that sits    *)
(* exactly on fps_warning_threshold (30 frames per second): a frame of one *)
(* tick is at the threshold, a longer one below it, two frames in one tick *)
(* above it.                                                               *)
TicksPerSecond == 30

(* What the OS may report to end_frame: resident memory in MB, CPU in %. *)
MemoryReadings == {100, 150}
CpuReadings == {80, 90}

(* What gc.collect() may return. *)
CollectedCounts == {0, 1}

----------------------------------------------------------------------------
(* Exact rational arithmetic standing for Python's float arithmetic *)

Rat(n) == [num |-> n, den |-> 1]

Seconds(ticks) == [num |-> ticks, den |-> TicksPerSecond]

(* x / y; den = 0 in the result iff y = 0 (ZeroDivisionError). *)
RatDiv(x, y) ==
    IF y.num < 0
    THEN [num |-> (0 - x.num) * y.den, den |-> x.den * (0 - y.num)]
    ELSE [num |-> x.num * y.den, den |-> x.den * y.num]

RatMul(x, y) == [num |-> x.num * y.num, den |-> x.den * y.den]

RatLt(x, y) == x.num * y.den < y.num * x.den

RatEq(x, y) == x.num * y.den = y.num * x.den

Raised(x) == x.den = 0

RECURSIVE SumSeq(_)
SumSeq(s) == IF s = <<>> THEN 0 ELSE Head(s) + SumSeq(Tail(s))

RECURSIVE Pow10(_)
Pow10(d) == IF d = 0 THEN 1 ELSE 10 * Pow10(d - 1)

(* f"{x:.<d>f}": x rounded to d decimals (ties to even), as the integer x * 10^d. *)
(* A raised x never reaches the formatting: the 0 there is a placeholder.   *)
FormatFixed(x, d) ==
    IF x.den = 0 THEN 0
    ELSE LET scaled == x.num * Pow10(d)
             q == scaled \div x.den
             r == scaled % x.den
         IN  IF 2 * r < x.den THEN q
             ELSE IF 2 * r > x.den THEN q + 1
             ELSE IF q % 2 = 0 THEN q ELSE q + 1

----------------------------------------------------------------------------
(* collections.deque(maxlen=...) *)

(* Variant: a full window refuses the new sample instead of evicting. *)
deque_append_keep_oldest(d, x, maxlen) ==
    IF Len(d) >= maxlen THEN d ELSE Append(d, x)

deque_append(d, x, maxlen) ==
    IF maxlen = 0 THEN d
    ELSE IF Len(d) >= maxlen THEN Append(Tail(d), x)
    ELSE Append(d, x)

----------------------------------------------------------------------------
(* PerformanceProfiler *)

init(max_samples, t1, t2) ==
    [ max_samples |-> max_samples,
      frame_times |-> <<>>,
      memory_usage |-> <<>>,
      cpu_usage |-> <<>>,
      last_frame_time |-> t1,
      start_time |-> t2,
      frame_count |-> 0,
      fps_warning_threshold |-> 30,
      memory_warning_threshold |-> 100,
      cpu_warning_threshold |-> 80 ]

(* Variant: the first frame is measured too. *)
start_frame_no_skip(self, current_time) ==
    [self EXCEPT !.frame_times = deque_append(self.frame_times,
                                              current_time - self.last_frame_time,
                                              self.max_samples),
                 !.last_frame_time = current_time,
                 !.frame_count = self.frame_count + 1]

(* Variant: last_frame_time is set by the first call only. *)
start_frame_stale_last(self, current_time) ==
    LET appended ==
            IF self.frame_count > 0
            THEN deque_append(self.frame_times,
                              current_time - self.last_frame_time,
                              self.max_samples)
            ELSE self.frame_times
    IN  [self EXCEPT !.frame_times = appended,
                     !.last_frame_time = IF self.frame_count > 0
                                         THEN self.last_frame_time
                                         ELSE current_time,
                     !.frame_count = self.frame_count + 1]

start_frame(self, current_time) ==
    LET appended ==
            IF self.frame_count > 0
            THEN deque_append(self.frame_times,
                              current_time - self.last_frame_time,
                              self.max_samples)
            ELSE self.frame_times
    IN  [self EXCEPT !.frame_times = appended,
                     !.last_frame_time = current_time,
                     !.frame_count = self.frame_count + 1]

(* Variant: end_frame counts frames as well. *)
end_frame_counting(self, memory_mb, cpu_percent) ==
    [self EXCEPT
        !.memory_usage = deque_append(self.memory_usage, memory_mb, self.max_samples),
        !.cpu_usage = deque_append(self.cpu_usage, cpu_percent, self.max_samples),
        !.frame_count = self.frame_count + 1]

(* Variant: the first CPU reading is dropped. *)
end_frame_skip_first_cpu(self, memory_mb, cpu_percent) ==
    [self EXCEPT
        !.memory_usage = deque_append(self.memory_usage, memory_mb, self.max_samples),
        !.cpu_usage = IF self.memory_usage = <<>> THEN self.cpu_usage
                      ELSE deque_append(self.cpu_usage, cpu_percent, self.max_samples)]

end_frame(self, memory_mb, cpu_percent) ==
    [self EXCEPT
        !.memory_usage = deque_append(self.memory_usage, memory_mb, self.max_samples),
        !.cpu_usage = deque_append(self.cpu_usage, cpu_percent, self.max_samples)]

(* Variant: the latest sample instead of the mean of the window. *)
get_fps_latest(self) ==
    IF self.frame_times = <<>> THEN Rat(0)
    ELSE LET frame_time == Seconds(self.frame_times[Len(self.frame_times)])
         IN  IF RatLt(Rat(0), frame_time)
             THEN RatDiv(Rat(1), frame_time)
             ELSE Rat(0)

(* Variant: no test of the mean before dividing. *)
get_fps_unguarded(self) ==
    IF self.frame_times = <<>> THEN Rat(0)
    ELSE RatDiv(Rat(1),
                RatDiv(Seconds(SumSeq(self.frame_times)), Rat(Len(self.frame_times))))

get_fps(self) ==
    IF self.frame_times = <<>> THEN Rat(0)
    ELSE LET avg_frame_time ==
                 RatDiv(Seconds(SumSeq(self.frame_times)), Rat(Len(self.frame_times)))
         IN  IF RatLt(Rat(0), avg_frame_time)
             THEN RatDiv(Rat(1), avg_frame_time)
             ELSE Rat(0)

(* Variant: the sum is divided by the capacity of the window. *)
get_average_frame_time_by_capacity(self) ==
    IF self.frame_times = <<>> THEN Rat(0)
    ELSE RatMul(RatDiv(Seconds(SumSeq(self.frame_times)), Rat(self.max_samples)),
                Rat(1000))

get_average_frame_time(self) ==
    IF self.frame_times = <<>> THEN Rat(0)
    ELSE RatMul(RatDiv(Seconds(SumSeq(self.frame_times)), Rat(Len(self.frame_times))),
                Rat(1000))

(* Variant: the oldest sample of the window. *)
get_memory_usage_oldest(self) ==
    IF self.memory_usage # <<>>
    THEN Rat(self.memory_usage[1])
    ELSE Rat(0)

get_memory_usage(self) ==
    IF self.memory_usage # <<>>
    THEN Rat(self.memory_usage[Len(self.memory_usage)])
    ELSE Rat(0)

get_cpu_usage(self) ==
    IF self.cpu_usage # <<>>
    THEN Rat(self.cpu_usage[Len(self.cpu_usage)])
    ELSE Rat(0)

get_performance_summary(self, t) ==
    [ fps |-> get_fps(self),
      avg_frame_time_ms |-> get_average_frame_time(self),
      memory_mb |-> get_memory_usage(self),
      cpu_percent |-> get_cpu_usage(self),
      total_frames |-> Rat(self.frame_count),
      runtime_seconds |-> Seconds(t - self.start_time) ]

(* A warning string: its words, then the value formatted by {:.1f}.  The   *)
(* characters after the words (digits, ".", "MB", "%", "(target: 60+)")    *)
(* contain none of the substrings optimize_performance looks for.          *)
LowFpsWarning(fps) ==
    [words |-> <<"Low", "FPS", "detected:">>, value |-> FormatFixed(fps, 1)]

HighMemoryWarning(memory) ==
    [words |-> <<"High", "memory", "usage:">>, value |-> FormatFixed(memory, 1)]

HighCpuWarning(cpu) ==
    [words |-> <<"High", "CPU", "usage:">>, value |-> FormatFixed(cpu, 1)]

(* Variant: the thresholds themselves warn. *)
check_performance_warnings_nonstrict(self) ==
    LET fps == get_fps(self)
        memory == get_memory_usage(self)
        cpu == get_cpu_usage(self)
        w1 == IF ~RatLt(Rat(self.fps_warning_threshold), fps)
              THEN <<LowFpsWarning(fps)>> ELSE <<>>
        w2 == IF ~RatLt(memory, Rat(self.memory_warning_threshold))
              THEN <<HighMemoryWarning(memory)>> ELSE <<>>
        w3 == IF ~RatLt(cpu, Rat(self.cpu_warning_threshold))
              THEN <<HighCpuWarning(cpu)>> ELSE <<>>
    IN  w1 \o w2 \o w3

(* Variant: an if/elif chain, the first warning that applies only. *)
check_performance_warnings_exclusive(self) ==
    LET fps == get_fps(self)
        memory == get_memory_usage(self)
        cpu == get_cpu_usage(self)
    IN  IF RatLt(fps, Rat(self.fps_warning_threshold))
        THEN <<LowFpsWarning(fps)>>
        ELSE IF RatLt(Rat(self.memory_warning_threshold), memory)
        THEN <<HighMemoryWarning(memory)>>
        ELSE IF RatLt(Rat(self.cpu_warning_threshold), cpu)
        THEN <<HighCpuWarning(cpu)>>
        ELSE <<>>

(* Variant: no FPS warning while there is no frame-duration sample. *)
check_performance_warnings_needing_samples(self) ==
    LET fps == get_fps(self)
        memory == get_memory_usage(self)
        cpu == get_cpu_usage(self)
        w1 == IF self.frame_times # <<>> /\ RatLt(fps, Rat(self.fps_warning_threshold))
              THEN <<LowFpsWarning(fps)>> ELSE <<>>
        w2 == IF RatLt(Rat(self.memory_warning_threshold), memory)
              THEN <<HighMemoryWarning(memory)>> ELSE <<>>
        w3 == IF RatLt(Rat(self.cpu_warning_threshold), cpu)
              THEN <<HighCpuWarning(cpu)>> ELSE <<>>
    IN  w1 \o w2 \o w3

check_performance_warnings(self) ==
    LET fps == get_fps(self)
        memory == get_memory_usage(self)
        cpu == get_cpu_usage(self)
        w1 == IF RatLt(fps, Rat(self.fps_warning_threshold))
              THEN <<LowFpsWarning(fps)>> ELSE <<>>
        w2 == IF RatLt(Rat(self.memory_warning_threshold), memory)
              THEN <<HighMemoryWarning(memory)>> ELSE <<>>
        w3 == IF RatLt(Rat(self.cpu_warning_threshold), cpu)
              THEN <<HighCpuWarning(cpu)>> ELSE <<>>
    IN  w1 \o w2 \o w3

(* Variant: the words keep their case. *)
lower_keep_case(word) == word

(* str.lower() on the words of a warning *)
lower(word) ==
    CASE word = "Low" -> "low"
      [] word = "FPS" -> "fps"
      [] word = "High" -> "high"
      [] word = "CPU" -> "cpu"
      [] OTHER -> word

(* "<needle>" in warning.lower() *)
Contains(needle, warning) ==
    \E i \in 1..Len(warning.words) : lower(warning.words[i]) = needle

AnyContains(needle, warnings) ==
    \E i \in 1..Len(warnings) : Contains(needle, warnings[i])

optimize_performance(self, collected) ==
    LET warnings == check_performance_warnings(self)
        o1 == IF AnyContains("memory", warnings)
              THEN << <<"Garbage collection freed", collected, "objects">> >>
              ELSE <<>>
        o2 == IF AnyContains("fps", warnings)
              THEN << <<"Consider reducing screen resolution or visual effects">> >>
              ELSE <<>>
        o3 == IF AnyContains("cpu", warnings)
              THEN << <<"Consider optimizing game logic or reducing entity count">> >>
              ELSE <<>>
    IN  o1 \o o2 \o o3

(* The keys of the summary dict, in insertion order *)
SummaryKeys ==
    <<"fps", "avg_frame_time_ms", "memory_mb", "cpu_percent",
      "total_frames", "runtime_seconds">>

(* key.replace('_', ' ').title() *)
title(key) ==
    CASE key = "fps" -> "Fps"
      [] key = "avg_frame_time_ms" -> "Avg Frame Time Ms"
      [] key = "memory_mb" -> "Memory Mb"
      [] key = "cpu_percent" -> "Cpu Percent"
      [] key = "total_frames" -> "Total Frames"
      [] key = "runtime_seconds" -> "Runtime Seconds"

(* Variant: the fixed line of a section is written after the list too. *)
report_lines_mixed(self, t, collected) ==
    LET summary == get_performance_summary(self, t)
        fields == [i \in 1..Len(SummaryKeys) |->
                      <<title(SummaryKeys[i]), FormatFixed(summary[SummaryKeys[i]], 2)>>]
        warnings == check_performance_warnings(self)
        optimizations == optimize_performance(self, collected)
        wlines == [i \in 1..Len(warnings) |-> <<"-", warnings[i]>>]
                  \o << <<"No performance issues detected.">> >>
        olines == [i \in 1..Len(optimizations) |-> <<"-", optimizations[i]>>]
                  \o << <<"No optimizations needed.">> >>
    IN  << <<"Alien Invasion Performance Report">>,
           <<"========================================">>,
           <<"">> >>
        \o fields
        \o << <<"">>, <<"Performance Warnings:">> >>
        \o wlines
        \o << <<"">>, <<"Optimization Suggestions:">> >>
        \o olines

(* The lines export_performance_data writes once the file is open.  A line *)
(* is a tuple: <<text>>, <<label, value * 100>> or <<"-", item>>.          *)
report_lines(self, t, collected) ==
    LET summary == get_performance_summary(self, t)
        fields == [i \in 1..Len(SummaryKeys) |->
                      <<title(SummaryKeys[i]), FormatFixed(summary[SummaryKeys[i]], 2)>>]
        warnings == check_performance_warnings(self)
        optimizations == optimize_performance(self, collected)
        wlines == IF warnings # <<>>
                  THEN [i \in 1..Len(warnings) |-> <<"-", warnings[i]>>]
                  ELSE << <<"No performance issues detected.">> >>
        olines == IF optimizations # <<>>
                  THEN [i \in 1..Len(optimizations) |-> <<"-", optimizations[i]>>]
                  ELSE << <<"No optimizations needed.">> >>
    IN  << <<"Alien Invasion Performance Report">>,
           <<"========================================">>,
           <<"">> >>
        \o fields
        \o << <<"">>, <<"Performance Warnings:">> >>
        \o wlines
        \o << <<"">>, <<"Optimization Suggestions:">> >>
        \o olines

(* Variant: the error of open() is swallowed. *)
export_performance_data_swallowing(self, t, writable, collected) ==
    IF writable
    THEN [file |-> report_lines(self, t, collected), raised |-> "None"]
    ELSE [file |-> <<>>, raised |-> "None"]

(* with open(filename, 'w') as f: what the statement raises *)
open_raised(writable) == IF writable THEN "None" ELSE "OSError"

(* open(filename, 'w') raises OSError when the path is not writable, before *)
(* anything is computed or written; otherwise the file holds the report.   *)
export_performance_data(self, t, writable, collected) ==
    IF open_raised(writable) = "None"
    THEN [file |-> report_lines(self, t, collected), raised |-> "None"]
    ELSE [file |-> <<>>, raised |-> open_raised(writable)]

(* end_frame where a query of psutil may raise: the call stops at the       *)
(* query that raises, keeping what was appended before it.                 *)
end_frame_call(self, memory_ok, memory_mb, cpu_ok, cpu_percent) ==
    IF ~memory_ok
    THEN [self |-> self, raised |-> "psutil.Error"]
    ELSE IF ~cpu_ok
    THEN [self |-> [self EXCEPT !.memory_usage =
                        deque_append(self.memory_usage, memory_mb, self.max_samples)],
          raised |-> "psutil.Error"]
    ELSE [self |-> end_frame(self, memory_mb, cpu_percent), raised |-> "None"]

----------------------------------------------------------------------------
(* OptimizedAlienInvasion *)

(* PerformanceProfiler() in __init__ takes the default max_samples *)
default_max_samples == 60

(* Settings.screen_width, screen_height and fps_target *)
screen_width == 1200

screen_height == 800

fps_target == 60

(* Settings.max_cached_surfaces *)
max_cached_surfaces == 100

(* The events pygame.event.get() may return: QUIT, and KEYDOWN of a key *)
Events == {"QUIT", "K_ESCAPE", "K_F1", "K_F2", "K_F3", "K_SPACE"}

RECURSIVE EventBatches(_)
EventBatches(n) ==
    IF n = 0 THEN {<<>>}
    ELSE LET shorter == EventBatches(n - 1)
         IN  shorter \cup {Append(b, e) : b \in shorter, e \in Events}

(* The object after __init__.  A surface is [key, frame]: the text it was  *)
(* rendered from and the frame it was rendered in.  fps_surface is <<>>    *)
(* while the attribute _fps_surface does not exist.  pc is the statement   *)
(* of run_game to execute next; printed is what was printed as warnings,   *)
(* files the files written so far, final_exports the exports _cleanup has  *)
(* made; checks and timer_frame count the per-second checks and name the   *)
(* frame of the last one.                                                  *)
game_init(t) ==
    [ pc |-> "loop",
      running |-> TRUE,
      show_fps |-> TRUE,
      fullscreen |-> FALSE,
      screen_width |-> screen_width,
      screen_height |-> screen_height,
      fps_target |-> fps_target,
      fps_counter |-> 0,
      fps_timer |-> t,
      performance_warnings |-> <<>>,
      max_cached_surfaces |-> max_cached_surfaces,
      cached_text |-> <<>>,
      fps_surface |-> <<>>,
      printed |-> <<>>,
      files |-> {},
      final_exports |-> 0,
      raised |-> "None",
      checks |-> 0,
      timer_frame |-> 0 ]

(* The builtins max and min of two numbers *)
max(a, b) == IF a >= b THEN a ELSE b

min(a, b) == IF a <= b THEN a ELSE b

(* Variant: the area is taken of the dimensions as configured. *)
validate_and_optimize_settings_area_first(g, has_get_desktop_sizes, desktop_sizes) ==
    LET width == max(800, min(1920, g.screen_width))
        height == max(600, min(1080, g.screen_height))
        screen_area == g.screen_width * g.screen_height
    IN  [g EXCEPT
            !.screen_width = width,
            !.screen_height = height,
            !.fps_target = IF /\ has_get_desktop_sizes
                              /\ desktop_sizes # <<>>
                              /\ screen_area > 1920 * 1080
                           THEN 30 ELSE @]

(* _validate_and_optimize_settings, given whether pygame.display has       *)
(* get_desktop_sizes and what it returns.  With the dimensions of          *)
(* Settings() it changes nothing, so game_init is also the object it       *)
(* leaves.                                                                 *)
validate_and_optimize_settings(g, has_get_desktop_sizes, desktop_sizes) ==
    LET width == max(800, min(1920, g.screen_width))
        height == max(600, min(1080, g.screen_height))
        screen_area == width * height
    IN  [g EXCEPT
            !.screen_width = width,
            !.screen_height = height,
            !.fps_target = IF /\ has_get_desktop_sizes
                              /\ desktop_sizes # <<>>
                              /\ screen_area > 1920 * 1080
                           THEN 30 ELSE @]

(* f"FPS: {fps_counter}" + f" | Mem: {memory_mb:.1f}MB" *)
fps_text(fps_counter, memory_mb) ==
    <<"FPS:", fps_counter, "| Mem:", FormatFixed(memory_mb, 1), "MB">>

(* f"{text}_{font_size}_{color}" *)
cache_key(text, font_size, color) == text \o <<font_size, color>>

InCache(cached_text, key) == \E i \in 1..Len(cached_text) : cached_text[i].key = key

(* _get_cached_text: the cache afterwards and the surface returned (<<>>   *)
(* with KeyError when the key is not in the cache at the return).          *)
get_cached_text_dropping_newest(cached_text, limit, text, font_size, color, frame) ==
    LET key == cache_key(text, font_size, color)
        inserted == IF InCache(cached_text, key) THEN cached_text
                    ELSE Append(cached_text, [key |-> key, frame |-> frame])
        limited == IF ~InCache(cached_text, key) /\ Len(inserted) > limit
                   THEN SubSeq(inserted, 1, Len(inserted) - 10)
                   ELSE inserted
    IN  IF InCache(limited, key)
        THEN [cached_text |-> limited,
              surface |-> <<limited[CHOOSE i \in 1..Len(limited) : limited[i].key = key]>>,
              raised |-> "None"]
        ELSE [cached_text |-> limited, surface |-> <<>>, raised |-> "KeyError"]

(* limit is self.settings.max_cached_surfaces *)
get_cached_text(cached_text, limit, text, font_size, color, frame) ==
    LET key == cache_key(text, font_size, color)
        inserted == IF InCache(cached_text, key) THEN cached_text
                    ELSE Append(cached_text, [key |-> key, frame |-> frame])
        limited == IF ~InCache(cached_text, key) /\ Len(inserted) > limit
                   THEN SubSeq(inserted, 11, Len(inserted))
                   ELSE inserted
    IN  IF InCache(limited, key)
        THEN [cached_text |-> limited,
              surface |-> <<limited[CHOOSE i \in 1..Len(limited) : limited[i].key = key]>>,
              raised |-> "None"]
        ELSE [cached_text |-> limited, surface |-> <<>>, raised |-> "KeyError"]

(* _toggle_fullscreen: the flag changes; the screen and the background    *)
(* are made anew from it and are no state of their own.                    *)
toggle_fullscreen(g) == [g EXCEPT !.fullscreen = ~g.fullscreen]

(* _handle_keydown, and the QUIT branch of _check_events.  Of an export    *)
(* the game keeps the file's name and what the call raised, which is what  *)
(* open raised.                                                            *)
handle_event(g, self, t, event, writable) ==
    CASE event \in {"QUIT", "K_ESCAPE"} -> [g EXCEPT !.running = FALSE]
      [] event = "K_F1" -> [g EXCEPT !.show_fps = ~g.show_fps]
      [] event = "K_F2" ->
            IF open_raised(writable) = "None"
            THEN [g EXCEPT !.files = g.files \cup {"performance_log.txt"}]
            ELSE [g EXCEPT !.raised = open_raised(writable)]
      [] event = "K_F3" -> toggle_fullscreen(g)
      [] OTHER -> g

(* _check_events: every event of the batch in turn, until one raises *)
RECURSIVE check_events(_, _, _, _, _)
check_events(g, self, t, batch, writable) ==
    IF batch = <<>> \/ g.raised # "None" THEN g
    ELSE check_events(handle_event(g, self, t, Head(batch), writable),
                      self, t, Tail(batch), writable)

IsFpsKey(surface) == surface.key[1] = "FPS:"

IsNotFpsKey(surface) == ~IsFpsKey(surface)

(* The removal of the cached FPS texts in _update_performance_monitoring *)
purge_fps_keys(cached_text) == SelectSeq(cached_text, IsNotFpsKey)

(* _update_performance_monitoring printing every non-empty list *)
update_performance_monitoring_reprinting(g, self, t) ==
    IF ~g.show_fps THEN g
    ELSE IF t - g.fps_timer >= TicksPerSecond
    THEN LET warnings == check_performance_warnings(self)
         IN  [g EXCEPT
                 !.performance_warnings = warnings,
                 !.printed = IF warnings # <<>> THEN Append(@, warnings) ELSE @,
                 !.cached_text = purge_fps_keys(@),
                 !.fps_counter = 0,
                 !.fps_timer = t]
    ELSE [g EXCEPT !.fps_counter = g.fps_counter + 1]

(* _update_performance_monitoring, current_time being t *)
update_performance_monitoring(g, self, t) ==
    IF ~g.show_fps THEN g
    ELSE IF t - g.fps_timer >= TicksPerSecond
    THEN LET warnings == check_performance_warnings(self)
             changed == warnings # g.performance_warnings
         IN  [g EXCEPT
                 !.performance_warnings = IF changed THEN warnings ELSE @,
                 !.printed = IF changed /\ warnings # <<>>
                             THEN Append(@, warnings) ELSE @,
                 !.cached_text = purge_fps_keys(@),
                 !.fps_counter = 0,
                 !.fps_timer = t]
    ELSE [g EXCEPT !.fps_counter = g.fps_counter + 1]

(* The test of _update_screen that decides on rendering the FPS text *)
renders(g, t) ==
    g.show_fps /\ (t - g.fps_timer >= TicksPerSecond \/ g.fps_surface = <<>>)

(* _update_screen, current_time being t, in frame number frame *)
update_screen(g, self, t, frame) ==
    IF renders(g, t)
    THEN LET text == fps_text(g.fps_counter, get_performance_summary(self, t).memory_mb)
             got == get_cached_text(g.cached_text, g.max_cached_surfaces,
                                    text, "small", "(0, 0, 0)", frame)
         IN  [g EXCEPT !.cached_text = got.cached_text,
                       !.fps_surface = IF got.raised = "None" THEN got.surface ELSE @,
                       !.raised = got.raised]
    ELSE g

----------------------------------------------------------------------------
(* The calls a client makes on one profiler, in any order.  What a call    *)
(* returns is the value of its operator on the profiler it was made on;    *)
(* out keeps the name of the call and whether it raised.                   *)

Called(op) == [op |-> op, raised |-> "None"]

Init ==
    \E max_samples \in 1..MaxSamples :
        /\ profiler = init(max_samples, 0, 0)
        /\ now = 0
        /\ startClocks = <<>>
        /\ readings = <<>>
        /\ out = Called("__init__")
        /\ game = game_init(0)

StartFrame ==
    /\ Len(startClocks) < MaxFrames
    /\ \E t \in now..MaxTime :
        /\ profiler' = start_frame(profiler, t)
        /\ now' = t
        /\ startClocks' = Append(startClocks, t)
    /\ out' = Called("start_frame")
    /\ UNCHANGED <<readings, game>>

EndFrame ==
    /\ Len(readings) < MaxEnds
    /\ \E memory_mb \in MemoryReadings, cpu_percent \in CpuReadings :
        /\ profiler' = end_frame(profiler, memory_mb, cpu_percent)
        /\ readings' = Append(readings, <<memory_mb, cpu_percent>>)
    /\ out' = Called("end_frame")
    /\ UNCHANGED <<now, startClocks, game>>

(* time.time() is read once; the dict is returned. *)
GetPerformanceSummary ==
    /\ \E t \in now..MaxTime : now' = t
    /\ out' = Called("get_performance_summary")
    /\ UNCHANGED <<profiler, startClocks, readings, game>>

CheckPerformanceWarnings ==
    /\ out' = Called("check_performance_warnings")
    /\ UNCHANGED <<profiler, now, startClocks, readings, game>>

(* Variant: the "optimization" frees the sample windows. *)
OptimizePerformanceClearing ==
    /\ out' = Called("optimize_performance")
    /\ profiler' = [profiler EXCEPT !.frame_times = <<>>,
                                    !.memory_usage = <<>>,
                                    !.cpu_usage = <<>>]
    /\ UNCHANGED <<now, startClocks, readings, game>>

OptimizePerformance ==
    /\ out' = Called("optimize_performance")
    /\ UNCHANGED <<profiler, now, startClocks, readings, game>>

(* When open() fails nothing else runs: the clock is not read. *)
ExportPerformanceData ==
    /\ \E writable \in BOOLEAN :
        \E t \in IF writable THEN now..MaxTime ELSE {now} :
            /\ now' = t
            /\ out' = [op |-> "export_performance_data",
                       raised |-> export_performance_data(profiler, t, writable, 0).raised]
    /\ UNCHANGED <<profiler, startClocks, readings, game>>

Next ==
    \/ StartFrame
    \/ EndFrame
    \/ GetPerformanceSummary
    \/ CheckPerformanceWarnings
    \/ OptimizePerformance
    \/ ExportPerformanceData

Spec == Init /\ [][Next]_vars

----------------------------------------------------------------------------
(* run_game.  Each action is one statement of the loop body; the sets say  *)
(* what the environment may answer.                                        *)

(* Between two readings of the clock in the loop less than a tick or one   *)
(* second passes.                                                          *)
ClockSteps == {0, TicksPerSecond}

ClockReadings == {t \in {now + d : d \in ClockSteps} : t <= MaxTime * TicksPerSecond}

(* What psutil reports of the game's process at the end of a frame: a      *)
(* light process (no reading over its threshold) or a heavy one (both).    *)
ProcessReadings == {<<100, 80>>, <<150, 90>>}

(* The loop is followed for this many iterations *)
MaxIterations == MaxEnds

(* OptimizedAlienInvasion() before run_game *)
GameInit ==
    /\ profiler = init(default_max_samples, 0, 0)
    /\ now = 0
    /\ startClocks = <<>>
    /\ readings = <<>>
    /\ out = Called("__init__")
    /\ game = game_init(0)

Goto(g, pc) == [g EXCEPT !.pc = IF g.raised = "None" THEN pc ELSE "crashed"]

(* while self.running: self.profiler.start_frame() *)
GameStartFrame ==
    /\ game.pc = "loop"
    /\ game.running
    /\ Len(startClocks) < MaxIterations
    /\ \E t \in ClockReadings :
        /\ profiler' = start_frame(profiler, t)
        /\ now' = t
        /\ startClocks' = Append(startClocks, t)
    /\ out' = Called("start_frame")
    /\ game' = Goto(game, "events")
    /\ UNCHANGED readings

(* An event handler that makes a new profiler when the display changes *)
GameCheckEventsResettingProfiler(Writables) ==
    /\ game.pc = "events"
    /\ \E batch \in EventBatches(MaxEvents), writable \in Writables :
        LET g == check_events(game, profiler, now, batch, writable)
            exported == \E i \in 1..Len(batch) : batch[i] = "K_F2"
            toggled == \E i \in 1..Len(batch) : batch[i] = "K_F3"
        IN  /\ game' = Goto(g, "monitoring")
            /\ profiler' = IF toggled THEN init(default_max_samples, now, now)
                           ELSE profiler
            /\ out' = IF exported
                      THEN [op |-> "export_performance_data", raised |-> g.raised]
                      ELSE out
    /\ UNCHANGED <<now, startClocks, readings>>

(* self._check_events(); self._update_game_logic() *)
GameCheckEvents(Writables) ==
    /\ game.pc = "events"
    /\ \E batch \in EventBatches(MaxEvents), writable \in Writables :
        LET g == check_events(game, profiler, now, batch, writable)
            exported == \E i \in 1..Len(batch) : batch[i] = "K_F2"
        IN  /\ game' = Goto(g, "monitoring")
            /\ out' = IF exported
                      THEN [op |-> "export_performance_data", raised |-> g.raised]
                      ELSE out
    /\ UNCHANGED <<profiler, now, startClocks, readings>>

(* self._update_performance_monitoring() *)
GameUpdateMonitoring ==
    /\ game.pc = "monitoring"
    /\ \E t \in IF game.show_fps THEN ClockReadings ELSE {now} :
        LET g == update_performance_monitoring(game, profiler, t)
            checked == g.fps_timer # game.fps_timer
        IN  /\ now' = t
            /\ game' = [Goto(g, "screen") EXCEPT
                           !.checks = IF checked THEN @ + 1 ELSE @,
                           !.timer_frame = IF checked THEN Len(startClocks) ELSE @]
            /\ out' = IF checked THEN Called("check_performance_warnings") ELSE out
    /\ UNCHANGED <<profiler, startClocks, readings>>

(* self._update_screen() *)
GameUpdateScreen ==
    /\ game.pc = "screen"
    /\ \E t \in IF game.show_fps THEN ClockReadings ELSE {now} :
        /\ now' = t
        /\ game' = Goto(update_screen(game, profiler, t, Len(startClocks)), "end_frame")
        /\ out' = IF renders(game, t) THEN Called("get_performance_summary") ELSE out
    /\ UNCHANGED <<profiler, startClocks, readings>>

(* A loop that leaves the body as soon as running is False *)
GameEndFrameUnlessQuit(MemoryOks, CpuOks) ==
    /\ game.pc = "end_frame"
    /\ \E memory_ok \in MemoryOks, cpu_ok \in CpuOks, reading \in ProcessReadings :
        LET memory_mb == reading[1]
            cpu_percent == reading[2]
            done == IF game.running
                    THEN end_frame_call(profiler, memory_ok, memory_mb, cpu_ok, cpu_percent)
                    ELSE [self |-> profiler, raised |-> "KeyboardInterrupt"]
        IN  /\ profiler' = done.self
            /\ readings' = IF done.raised = "None"
                           THEN Append(readings, <<memory_mb, cpu_percent>>)
                           ELSE readings
            /\ out' = IF game.running THEN [op |-> "end_frame", raised |-> done.raised]
                      ELSE out
            /\ game' = [game EXCEPT !.pc = IF ~game.running THEN "loop"
                                           ELSE IF done.raised = "None" THEN "loop"
                                           ELSE "crashed",
                                    !.raised = IF game.running THEN done.raised ELSE @]
    /\ UNCHANGED <<now, startClocks>>

(* self.profiler.end_frame(); self.clock.tick(self.settings.fps_target) *)
GameEndFrame(MemoryOks, CpuOks) ==
    /\ game.pc = "end_frame"
    /\ \E memory_ok \in MemoryOks, cpu_ok \in CpuOks, reading \in ProcessReadings :
        LET memory_mb == reading[1]
            cpu_percent == reading[2]
            done == end_frame_call(profiler, memory_ok, memory_mb, cpu_ok, cpu_percent)
        IN  /\ profiler' = done.self
            /\ readings' = IF done.raised = "None"
                           THEN Append(readings, <<memory_mb, cpu_percent>>)
                           ELSE readings
            /\ out' = [op |-> "end_frame", raised |-> done.raised]
            /\ game' = Goto([game EXCEPT !.raised = done.raised], "loop")
    /\ UNCHANGED <<now, startClocks>>

(* A _cleanup that exits without the final export *)
GameCleanupSkippingExport(Writables) ==
    /\ game.pc = "loop"
    /\ ~game.running
    /\ \E writable \in Writables :
        /\ game' = Goto(game, "exited")
        /\ out' = Called("get_performance_summary")
    /\ UNCHANGED <<profiler, now, startClocks, readings>>

(* The loop is left: self._cleanup() exports, prints the summary and exits *)
GameCleanup(Writables) ==
    /\ game.pc = "loop"
    /\ ~game.running
    /\ \E writable \in Writables :
        LET done == [raised |-> open_raised(writable)]
        IN  /\ game' = Goto([game EXCEPT
                                 !.files = IF done.raised = "None"
                                           THEN @ \cup {"final_performance_report.txt"}
                                           ELSE @,
                                 !.final_exports = @ + 1,
                                 !.raised = done.raised], "exited")
            /\ out' = IF done.raised = "None" THEN Called("get_performance_summary")
                      ELSE [op |-> "export_performance_data", raised |-> done.raised]
    /\ UNCHANGED <<profiler, now, startClocks, readings>>

GameNext ==
    \/ GameStartFrame
    \/ GameCheckEvents({TRUE})
    \/ GameUpdateMonitoring
    \/ GameUpdateScreen
    \/ GameEndFrame({TRUE}, {TRUE})
    \/ GameCleanup({TRUE})

(* The text cache by itself: any sequence of _get_cached_text calls and    *)
(* removals of the FPS texts, for limits of at least 10.                   *)
CacheLimits == 10..MaxLimit \cup {max_cached_surfaces}

CacheInit ==
    /\ profiler = init(default_max_samples, 0, 0)
    /\ now = 0
    /\ startClocks = <<>>
    /\ readings = <<>>
    /\ out = Called("__init__")
    /\ \E limit \in CacheLimits :
        game = [game_init(0) EXCEPT !.pc = "cache", !.max_cached_surfaces = limit]

(* The number of the newest text in the cache, 0 in an empty cache *)
RECURSIVE NewestText(_)
NewestText(cached_text) ==
    IF cached_text = <<>> THEN 0
    ELSE LET n == cached_text[Len(cached_text)].key[2]
             m == NewestText(SubSeq(cached_text, 1, Len(cached_text) - 1))
         IN  IF n > m THEN n ELSE m

(* The text number n: every fifth one is an FPS text *)
Text(n) == IF n % 5 = 0 THEN <<"FPS:", n>> ELSE <<"Score:", n>>

(* A caller asks for the first text again or for the next new one *)
RequestedTexts ==
    {1} \cup {n \in {NewestText(game.cached_text) + 1} :
                  n <= game.max_cached_surfaces + MaxOverflow}

(* surface = self._get_cached_text(text, 'small', (0, 0, 0)) *)
GetCachedText ==
    /\ game.pc = "cache"
    /\ \E n \in RequestedTexts :
        LET got == get_cached_text(game.cached_text, game.max_cached_surfaces,
                                   Text(n), "small", "(0, 0, 0)", 0)
        IN  /\ game' = [game EXCEPT
                           !.cached_text = got.cached_text,
                           !.fps_surface = IF got.raised = "None" THEN got.surface ELSE @,
                           !.raised = got.raised,
                           !.pc = IF got.raised = "None" THEN "cache" ELSE "crashed"]
            /\ out' = [op |-> "_get_cached_text", raised |-> got.raised, text |-> Text(n)]
    /\ UNCHANGED <<profiler, now, startClocks, readings>>

(* The removal of the FPS texts that the per-second check makes *)
PurgeFpsKeys ==
    /\ game.pc = "cache"
    /\ game' = [game EXCEPT !.cached_text = purge_fps_keys(@)]
    /\ out' = Called("_update_performance_monitoring")
    /\ UNCHANGED <<profiler, now, startClocks, readings>>

CacheNext ==
    \/ GetCachedText
    \/ PurgeFpsKeys

CacheSpec == CacheInit /\ [][CacheNext]_vars

(* _validate_and_optimize_settings by itself, on settings of any size *)
ScreenWidths == {-1, 0, 640, 799, 800, 801, 1200, 1919, 1920, 1921, 2560, 3840}

ScreenHeights == {-1, 0, 480, 599, 600, 601, 800, 1079, 1080, 1081, 1440, 2160}

(* What pygame.display.get_desktop_sizes() may return *)
DesktopSizes == {<<>>, <<<<1920, 1080>>>>, <<<<3840, 2160>>, <<1920, 1080>>>>}

SettingsInit ==
    /\ profiler = init(default_max_samples, 0, 0)
    /\ now = 0
    /\ startClocks = <<>>
    /\ readings = <<>>
    /\ out = Called("Settings")
    /\ \E width \in ScreenWidths, height \in ScreenHeights :
        game = [game_init(0) EXCEPT !.pc = "__init__",
                                    !.screen_width = width,
                                    !.screen_height = height]

(* self._validate_and_optimize_settings() in __init__ *)
ValidateAndOptimizeSettings ==
    /\ game.pc = "__init__"
    /\ \E has_get_desktop_sizes \in BOOLEAN, desktop_sizes \in DesktopSizes :
        game' = [validate_and_optimize_settings(game, has_get_desktop_sizes, desktop_sizes)
                     EXCEPT !.pc = "loop"]
    /\ out' = Called("_validate_and_optimize_settings")
    /\ UNCHANGED <<profiler, now, startClocks, readings>>

SettingsNext == ValidateAndOptimizeSettings

SettingsSpec == SettingsInit /\ [][SettingsNext]_vars

GameSpec == GameInit /\ [][GameNext]_vars

(* A running process executes its next statement *)
GameLive == GameSpec /\ WF_vars(GameNext)

FaultyNext ==
    \/ GameStartFrame
    \/ GameCheckEvents(BOOLEAN)
    \/ GameUpdateMonitoring
    \/ GameUpdateScreen
    \/ GameEndFrame(BOOLEAN, BOOLEAN)
    \/ GameCleanup(BOOLEAN)

FaultySpec == GameInit /\ [][FaultyNext]_vars

----------------------------------------------------------------------------
(* Vocabulary of the properties *)

Min(a, b) == IF a < b THEN a ELSE b

Last(s) == s[Len(s)]

(* The last n elements of s, in order *)
LastN(s, n) == SubSeq(s, Len(s) - n + 1, Len(s))

(* The differences of consecutive clock values *)
Intervals(clocks) ==
    IF Len(clocks) < 2 THEN <<>>
    ELSE [i \in 1..(Len(clocks) - 1) |-> clocks[i + 1] - clocks[i]]

(* The k-th component of every reading *)
Column(rs, k) == [i \in 1..Len(rs) |-> rs[i][k]]

(* window holds the last min(k, max_samples) of the k values appended so far *)
IsTailOf(window, appended) ==
    /\ Len(window) <= profiler.max_samples
    /\ window = LastN(appended, Min(Len(appended), profiler.max_samples))

ReadOps ==
    {"get_performance_summary", "check_performance_warnings",
     "optimize_performance", "export_performance_data"}

(* The warning list holds a warning whose second word is word *)
Warns(warnings, word) ==
    \E i \in 1..Len(warnings) : warnings[i].words[2] = word

(* 1 for a low-FPS, 2 for a high-memory, 3 for a high-CPU warning *)
Rank(warning) ==
    CASE warning.words[2] = "FPS" -> 1
      [] warning.words[2] = "memory" -> 2
      [] warning.words[2] = "CPU" -> 3

Count(b) == IF b THEN 1 ELSE 0

----------------------------------------------------------------------------
(* C1: after N >= 1 start_frame calls the frame-duration window holds      *)
(* exactly min(N - 1, max_samples) samples; after the first call it is     *)
(* empty, last_frame_time is the clock value of that call and frame_count  *)
(* is 1.                                                                   *)
FrameWindowLength ==
    LET N == Len(startClocks)
    IN  /\ N >= 1 =>
            Len(profiler.frame_times) = Min(N - 1, profiler.max_samples)
        /\ N = 1 =>
            /\ profiler.frame_times = <<>>
            /\ profiler.last_frame_time = startClocks[1]
            /\ profiler.frame_count = 1

(* More start_frame calls than the window can hold samples of *)
FrameWindowFull ==
    /\ out.op = "start_frame"
    /\ Len(startClocks) - 1 > profiler.max_samples
    /\ Len(profiler.frame_times) = profiler.max_samples

FrameCountCountsStartFrames ==
    /\ [](/\ profiler.frame_count = Len(startClocks)
          /\ get_performance_summary(profiler, now).total_frames
                 = Rat(Len(startClocks)))
    /\ [][/\ profiler'.frame_count >= profiler.frame_count
          /\ out'.op # "start_frame" =>
                 profiler'.frame_count = profiler.frame_count]_vars

(* frame_count is past the length of a window that has evicted, and read   *)
(* calls and end_frame calls have been made                                *)
FrameCountAfterEviction ==
    /\ out.op \in ReadOps
    /\ readings # <<>>
    /\ profiler.frame_count = 3
    /\ Len(profiler.frame_times) = 1

(* C4: a start_frame call other than the first appends the clock value of  *)
(* this call minus the clock value of the previous start_frame call, and   *)
(* leaves last_frame_time at the clock value of this call, whatever was    *)
(* called in between.                                                      *)
FrameTimeIsInterval ==
    [][(out'.op = "start_frame" /\ Len(startClocks) >= 1) =>
           /\ Len(startClocks') = Len(startClocks) + 1
           /\ Last(profiler'.frame_times) = Last(startClocks') - Last(startClocks)
           /\ profiler'.last_frame_time = Last(startClocks')
           /\ Last(startClocks') = now']_vars

(* Two measured frames of different lengths, with end_frame calls made *)
TwoFramesMeasured ==
    /\ out.op = "start_frame"
    /\ startClocks = <<0, 1, 1>>
    /\ readings # <<>>
    /\ profiler.frame_times = <<1, 0>>
    /\ profiler.last_frame_time = 1

(* C5, as claimed: fps is 1 / (average frame time in seconds) whenever the *)
(* frame-duration window is non-empty, and 0.0 when it is empty.           *)
FpsIsReciprocalWhenNonEmpty ==
    LET fps == get_fps(profiler)
        avg_ms == get_average_frame_time(profiler)
    IN  /\ profiler.frame_times # <<>> =>
            /\ ~Raised(fps)
            /\ RatEq(RatMul(fps, avg_ms), Rat(1000))
        /\ profiler.frame_times = <<>> => RatEq(fps, Rat(0))

(* C5, amended: fps is 1 / (average frame time in seconds) whenever the    *)
(* window is non-empty and its mean is positive; fps is 0.0 when the       *)
(* window is empty or its mean is not positive.                            *)
FpsIsReciprocalWhenPositive ==
    LET fps == get_fps(profiler)
        avg_ms == get_average_frame_time(profiler)
        positive == profiler.frame_times # <<>> /\ SumSeq(profiler.frame_times) > 0
    IN  /\ ~Raised(fps)
        /\ positive => RatEq(RatMul(fps, avg_ms), Rat(1000))
        /\ ~positive => RatEq(fps, Rat(0))

(* Two frames in one tick: the mean is half a tick, fps is 60 *)
FpsOfMean ==
    /\ out.op = "get_performance_summary"
    /\ profiler.frame_times = <<0, 1>>
    /\ RatEq(get_fps(profiler), Rat(60))

(* C6: computing the summary raises no division fault: with an empty       *)
(* window fps and avg_frame_time_ms are 0.0, and with a non-empty window   *)
(* whose mean is zero fps is 0.0.                                          *)
SummaryNeverDividesByZero ==
    LET summary == get_performance_summary(profiler, now)
    IN  /\ \A i \in 1..Len(SummaryKeys) : ~Raised(summary[SummaryKeys[i]])
        /\ profiler.frame_times = <<>> =>
            /\ summary.fps = Rat(0)
            /\ summary.avg_frame_time_ms = Rat(0)
        /\ (profiler.frame_times # <<>> /\ SumSeq(profiler.frame_times) = 0) =>
            summary.fps = Rat(0)

(* The summary is asked for after two start_frame calls at one clock value *)
SummaryOfZeroMean ==
    /\ out.op = "get_performance_summary"
    /\ profiler.frame_times # <<>>
    /\ SumSeq(profiler.frame_times) = 0

(* C7: the warning list holds the low-FPS warning iff fps < 30, the        *)
(* high-memory warning iff memory_mb > 100 and the high-CPU warning iff    *)
(* cpu_percent > 80; fps = 30, memory = 100 and CPU = 80 give no warning.  *)
ThresholdsAreStrict ==
    LET warnings == check_performance_warnings(profiler)
        fps == get_fps(profiler)
        memory == get_memory_usage(profiler)
        cpu == get_cpu_usage(profiler)
    IN  /\ Warns(warnings, "FPS") <=> RatLt(fps, Rat(30))
        /\ Warns(warnings, "memory") <=> RatLt(Rat(100), memory)
        /\ Warns(warnings, "CPU") <=> RatLt(Rat(80), cpu)
        /\ (RatEq(fps, Rat(30)) /\ RatEq(memory, Rat(100)) /\ RatEq(cpu, Rat(80))) =>
            warnings = <<>>

(* The warnings are asked for with every metric exactly on its threshold *)
AllOnThreshold ==
    /\ out.op = "check_performance_warnings"
    /\ RatEq(get_fps(profiler), Rat(30))
    /\ RatEq(get_memory_usage(profiler), Rat(100))
    /\ RatEq(get_cpu_usage(profiler), Rat(80))
    /\ check_performance_warnings(profiler) = <<>>

(* C8: the three checks are independent (the list has one warning for each *)
(* metric beyond its threshold, whatever the other metrics are), a kind    *)
(* appears at most once, and low-FPS precedes high-memory precedes         *)
(* high-CPU.                                                               *)
WarningsIndependentAndOrdered ==
    LET warnings == check_performance_warnings(profiler)
    IN  /\ Len(warnings) =
               Count(RatLt(get_fps(profiler), Rat(profiler.fps_warning_threshold)))
               + Count(RatLt(Rat(profiler.memory_warning_threshold),
                             get_memory_usage(profiler)))
               + Count(RatLt(Rat(profiler.cpu_warning_threshold),
                             get_cpu_usage(profiler)))
        /\ \A i, j \in 1..Len(warnings) :
               i < j => Rank(warnings[i]) < Rank(warnings[j])

(* A measured frame rate below the threshold, with memory and CPU above    *)
(* theirs: the three warnings together, in order                           *)
AllThreeWarnings ==
    LET warnings == check_performance_warnings(profiler)
    IN  /\ out.op = "check_performance_warnings"
        /\ profiler.frame_times # <<>>
        /\ SumSeq(profiler.frame_times) > 0
        /\ Len(warnings) = 3
        /\ warnings[1].words[2] = "FPS"
        /\ warnings[2].words[2] = "memory"
        /\ warnings[3].words[2] = "CPU"

(* C9: get_performance_summary, check_performance_warnings,                *)
(* optimize_performance and export_performance_data leave every field of   *)
(* the profiler as it was; no call changes max_samples, start_time or the  *)
(* thresholds, which stay 30, 100 and 80.                                  *)
ReadsLeaveProfilerUnchanged ==
    /\ [](/\ profiler.fps_warning_threshold = 30
          /\ profiler.memory_warning_threshold = 100
          /\ profiler.cpu_warning_threshold = 80)
    /\ [][/\ out'.op \in ReadOps => profiler' = profiler
          /\ profiler'.max_samples = profiler.max_samples
          /\ profiler'.start_time = profiler.start_time
          /\ profiler'.fps_warning_threshold = profiler.fps_warning_threshold
          /\ profiler'.memory_warning_threshold = profiler.memory_warning_threshold
          /\ profiler'.cpu_warning_threshold = profiler.cpu_warning_threshold]_vars

(* optimize_performance has run on a profiler whose windows all hold       *)
(* samples, and they are still there                                       *)
OptimizedWithSamples ==
    /\ out.op = "optimize_performance"
    /\ profiler.frame_times # <<>>
    /\ profiler.memory_usage # <<>>
    /\ profiler.cpu_usage # <<>>
    /\ profiler.frame_count = 3

----------------------------------------------------------------------------
(* Vocabulary of the properties about the report and the suggestions *)

(* The lines of a report after the heading, up to the next empty line *)
Section(lines, heading) ==
    LET h == CHOOSE i \in 1..Len(lines) : lines[i] = heading
        rest == SubSeq(lines, h + 1, Len(lines))
        ends == {i \in 1..Len(rest) : rest[i] = <<"">>}
        stop == IF ends = {} THEN Len(rest) + 1
                ELSE CHOOSE i \in ends : \A j \in ends : i <= j
    IN  SubSeq(rest, 1, stop - 1)

(* One "- item" line for each item, in order *)
ItemLines(items) == [i \in 1..Len(items) |-> <<"-", items[i]>>]

(* How many suggestions start with text *)
Suggested(optimizations, text) ==
    Cardinality({i \in 1..Len(optimizations) : optimizations[i][1] = text})

----------------------------------------------------------------------------
ExportFailurePropagates ==
    /\ [](\A t \in now..MaxTime, collected \in CollectedCounts :
            /\ export_performance_data(profiler, t, FALSE, collected)
                   = [file |-> <<>>, raised |-> "OSError"]
            /\ export_performance_data(profiler, t, TRUE, collected).raised = "None")
    /\ [][(out'.op = "export_performance_data" /\ out'.raised # "None") =>
              /\ out'.raised = "OSError"
              /\ profiler' = profiler
              /\ UNCHANGED <<startClocks, readings>>]_vars

(* A failed export on a profiler that holds samples *)
ExportFailed ==
    /\ out.op = "export_performance_data"
    /\ out.raised = "OSError"
    /\ profiler.frame_times # <<>>
    /\ profiler.memory_usage # <<>>

(* C14: in the report the warnings section is one line for each current    *)
(* warning, in order, when there is one, and the single line "No           *)
(* performance issues detected." otherwise; the suggestions section        *)
(* likewise, with "No optimizations needed."; no section is empty.         *)
ReportSectionsEitherOr ==
    \A collected \in CollectedCounts :
        LET lines == report_lines(profiler, now, collected)
            warnings == check_performance_warnings(profiler)
            optimizations == optimize_performance(profiler, collected)
            wsection == Section(lines, <<"Performance Warnings:">>)
            osection == Section(lines, <<"Optimization Suggestions:">>)
        IN  /\ wsection # <<>>
            /\ osection # <<>>
            /\ wsection = IF warnings # <<>> THEN ItemLines(warnings)
                          ELSE << <<"No performance issues detected.">> >>
            /\ osection = IF optimizations # <<>> THEN ItemLines(optimizations)
                          ELSE << <<"No optimizations needed.">> >>

(* A report is written while nothing is beyond its threshold *)
ReportWithoutIssues ==
    /\ out.op = "export_performance_data"
    /\ out.raised = "None"
    /\ profiler.frame_times # <<>>
    /\ readings # <<>>
    /\ Section(report_lines(profiler, now, 0), <<"Performance Warnings:">>)
           = << <<"No performance issues detected.">> >>
    /\ Section(report_lines(profiler, now, 0), <<"Optimization Suggestions:">>)
           = << <<"No optimizations needed.">> >>

(* C15: optimize_performance returns one suggestion for each kind of       *)
(* warning present and none for a kind that is absent: the garbage         *)
(* collection one iff high-memory, the resolution one iff low-FPS, the     *)
(* entity count one iff high-CPU.                                          *)
OneSuggestionPerWarningKind ==
    \A collected \in CollectedCounts :
        LET warnings == check_performance_warnings(profiler)
            optimizations == optimize_performance(profiler, collected)
        IN  /\ Len(optimizations) = Len(warnings)
            /\ Suggested(optimizations, "Garbage collection freed")
                   = Count(Warns(warnings, "memory"))
            /\ Suggested(optimizations,
                         "Consider reducing screen resolution or visual effects")
                   = Count(Warns(warnings, "FPS"))
            /\ Suggested(optimizations,
                         "Consider optimizing game logic or reducing entity count")
                   = Count(Warns(warnings, "CPU"))
            /\ \A i \in 1..Len(optimizations) :
                   optimizations[i][1] = "Garbage collection freed" =>
                       optimizations[i][2] = collected /\ collected >= 0

(* Only memory is beyond its threshold: one warning, one suggestion *)
OnlyMemoryHigh ==
    /\ out.op = "optimize_performance"
    /\ Len(check_performance_warnings(profiler)) = 1
    /\ Warns(check_performance_warnings(profiler), "memory")
    /\ Len(optimize_performance(profiler, 1)) = 1
    /\ optimize_performance(profiler, 1)[1][1] = "Garbage collection freed"

(* C18: when the start_frame calls so far (two or more) are spaced by one  *)
(* positive interval d, every sample of the window is d, the average frame *)
(* time is d and fps is 1 / d, before and after the window evicts.         *)
ConstantSpacingGivesReciprocal ==
    LET intervals == Intervals(startClocks)
        d == intervals[1]
        window == profiler.frame_times
    IN  (/\ Len(startClocks) >= 2
         /\ d > 0
         /\ \A i \in 1..Len(intervals) : intervals[i] = d) =>
            /\ Len(window) = Min(Len(startClocks) - 1, profiler.max_samples)
            /\ \A i \in 1..Len(window) : window[i] = d
            /\ RatEq(get_average_frame_time(profiler), RatMul(Seconds(d), Rat(1000)))
            /\ ~Raised(get_fps(profiler))
            /\ RatEq(get_fps(profiler), RatDiv(Rat(1), Seconds(d)))

(* Three calls one tick apart on a window of one sample: one was evicted *)
ConstantSpacingAfterEviction ==
    /\ startClocks = <<0, 1, 2>>
    /\ profiler.max_samples = 1
    /\ profiler.frame_times = <<1>>
    /\ RatEq(get_fps(profiler), Rat(30))

----------------------------------------------------------------------------
(* run_game *)

(* C12: an end_frame call in which a query of psutil raises returns        *)
(* normally and the loop goes on to its next iteration: after every        *)
(* end_frame call of the loop nothing was raised and the loop is at its    *)
(* head.                                                                   *)
EndFrameFailsSoftly ==
    (out.op = "end_frame" /\ game.pc # "end_frame") =>
        /\ out.raised = "None"
        /\ game.pc = "loop"
        /\ Len(readings) = Len(startClocks)

(* C16: start_frame and end_frame alternate, start_frame first: inside an  *)
(* iteration start_frame was called once more than end_frame, and at the   *)
(* head of the loop (every iteration boundary, the one after a quit         *)
(* included) and after the final export both were called equally often.    *)
(* The last end_frame call counts when it raised.                          *)
EndFrameCalls == Len(readings) + (IF out.op = "end_frame" /\ out.raised # "None" THEN 1 ELSE 0)

ProfilerCallsAlternate ==
    /\ profiler.frame_count = Len(startClocks)
    /\ game.pc \in {"events", "monitoring", "screen", "end_frame"} =>
           Len(startClocks) = EndFrameCalls + 1
    /\ game.pc \in {"loop", "exited"} => Len(startClocks) = EndFrameCalls
    /\ game.final_exports > 0 => Len(startClocks) = EndFrameCalls
    /\ game.pc = "crashed" => Len(startClocks) \in {EndFrameCalls, EndFrameCalls + 1}

(* Quit was handled in the second iteration, whose end_frame still ran *)
QuitIterationEnded ==
    /\ game.pc = "loop"
    /\ ~game.running
    /\ Len(startClocks) = 2
    /\ Len(readings) = 2

(* C17: once running is False it stays False, start_frame is not called    *)
(* again, end_frame is called for the current iteration at most, the       *)
(* final export is made at the head of the loop after that end_frame and   *)
(* writes final_performance_report.txt, nothing happens after the exit,    *)
(* and the process does reach the exit with exactly one final export.      *)
AfterQuit ==
    ~game.running =>
        /\ ~game'.running
        /\ startClocks' = startClocks
        /\ Len(readings') <= Len(startClocks)
        /\ game'.final_exports # game.final_exports =>
               /\ game.pc = "loop"
               /\ Len(readings) = Len(startClocks)
               /\ game'.final_exports = 1
               /\ "final_performance_report.txt" \in game'.files
               /\ game'.pc = "exited"
        /\ game.pc = "exited" => UNCHANGED vars

PerSecondCheck ==
    /\ game.pc = "monitoring"
    /\ game.show_fps
    /\ now' - game.fps_timer >= TicksPerSecond

SnapshotStep ==
    LET warnings == check_performance_warnings(profiler)
    IN  IF PerSecondCheck
        THEN /\ game'.performance_warnings = warnings
             /\ game'.printed =
                    IF warnings # game.performance_warnings /\ warnings # <<>>
                    THEN Append(game.printed, warnings)
                    ELSE game.printed
        ELSE /\ game'.performance_warnings = game.performance_warnings
             /\ game'.printed = game.printed

FpsDisplayRenderedEverySecond ==
    (/\ game.pc = "end_frame"
     /\ game.show_fps
     /\ game.timer_frame = Len(startClocks)) =>
        /\ game.fps_surface # <<>>
        /\ game.fps_surface[1].frame = Len(startClocks)

(* C21: a step that handles F3 leaves the profiler as it was (frame_count, *)
(* the three windows, last_frame_time, start_time), so frame_count keeps   *)
(* counting the start_frame calls across any number of toggles; toggling   *)
(* twice gives the fullscreen setting it started from.                     *)
EventsStep ==
    game.pc = "events" =>
        /\ profiler' = profiler
        /\ profiler'.frame_count = Len(startClocks')

FullscreenToggleKeepsProfiler ==
    /\ [][EventsStep]_vars
    /\ [](profiler.frame_count = Len(startClocks))
    /\ [](toggle_fullscreen(game).fullscreen # game.fullscreen)
    /\ [](toggle_fullscreen(toggle_fullscreen(game)) = game)

(* F3 was handled in the second frame, with samples in every window *)
ToggledWithSamples ==
    /\ game.pc = "monitoring"
    /\ game.fullscreen
    /\ profiler.frame_count = 2
    /\ Len(profiler.frame_times) = 1
    /\ Len(profiler.memory_usage) = 1
    /\ Len(profiler.cpu_usage) = 1

(* C22: with a limit of at least 10 the cache never holds more than the    *)
(* limit and no key twice; a call that finds the key leaves the cache as   *)
(* it is; a call that inserts appends the new surface, and when that       *)
(* exceeds the limit exactly the 10 oldest entries go, the new one staying *)
(* last; every call returns, without KeyError, the surface that the cache  *)
(* holds under the requested key; a removal of the FPS texts keeps the     *)
(* other entries in their order.                                           *)
CacheStep ==
    LET old == game.cached_text
        new == game'.cached_text
        limit == game.max_cached_surfaces
    IN  IF out'.op = "_get_cached_text"
        THEN LET key == cache_key(out'.text, "small", "(0, 0, 0)")
                 returned == game'.fps_surface
             IN  /\ out'.raised = "None"
                 /\ game'.pc = "cache"
                 /\ returned # <<>>
                 /\ returned[1].key = key
                 /\ \E i \in 1..Len(new) : new[i] = returned[1]
                 /\ IF InCache(old, key) THEN new = old
                    ELSE IF Len(old) + 1 > limit
                    THEN /\ new = SubSeq(Append(old, returned[1]), 11, Len(old) + 1)
                         /\ new[Len(new)] = returned[1]
                         /\ Len(new) = Len(old) - 9
                    ELSE new = Append(old, returned[1])
        ELSE /\ \A i \in 1..Len(new) : ~IsFpsKey(new[i])
             /\ new = SelectSeq(old, IsNotFpsKey)

CacheWithinLimit ==
    /\ game.max_cached_surfaces >= 10
    /\ Len(game.cached_text) <= game.max_cached_surfaces
    /\ \A i, j \in 1..Len(game.cached_text) :
           game.cached_text[i].key = game.cached_text[j].key => i = j
    /\ game.raised = "None"

CacheKeepsLimitAndReturnsSurface ==
    /\ [][CacheStep]_vars
    /\ []CacheWithinLimit

(* The eleventh text went into a cache of limit 10: the ten before it left *)
EvictedAtLimitTen ==
    /\ game.max_cached_surfaces = 10
    /\ out.op = "_get_cached_text"
    /\ out.text = Text(11)
    /\ Len(game.cached_text) = 1
    /\ game.fps_surface = <<game.cached_text[1]>>
    /\ game.cached_text[1].key = cache_key(Text(11), "small", "(0, 0, 0)")

(* C23: the frame-duration window is empty exactly until the second        *)
(* start_frame call; while it is empty fps is 0.0 and the warning list     *)
(* begins with the low-FPS warning of 0.0, whatever was read of memory and *)
(* CPU; so an empty warning list means two start_frame calls at least.     *)
NoSampleMeansLowFpsWarning ==
    LET warnings == check_performance_warnings(profiler)
    IN  /\ (profiler.frame_times = <<>>) <=> (Len(startClocks) <= 1)
        /\ profiler.frame_times = <<>> =>
               /\ ~Raised(get_fps(profiler))
               /\ RatEq(get_fps(profiler), Rat(0))
               /\ warnings # <<>>
               /\ warnings[1] = LowFpsWarning(Rat(0))
        /\ warnings = <<>> => Len(startClocks) >= 2

(* Warnings asked for after one start_frame and light readings: low FPS    *)
(* is the only one                                                         *)
LowFpsAloneBeforeSecondFrame ==
    /\ out.op = "check_performance_warnings"
    /\ Len(startClocks) = 1
    /\ readings # <<>>
    /\ check_performance_warnings(profiler) = <<LowFpsWarning(Rat(0))>>

(* C24: whatever the configured width and height, after                    *)
(* _validate_and_optimize_settings the width is within 800..1920, the      *)
(* height within 600..1080, the area at most 1920 * 1080, and fps_target   *)
(* is still the configured 60; no input takes the branch that sets 30.     *)
ValidationStep ==
    game.pc = "__init__" =>
        /\ game'.fps_target = game.fps_target
        /\ game'.screen_width = max(800, min(1920, game.screen_width))
        /\ game'.screen_height = max(600, min(1080, game.screen_height))

ValidatedSettings ==
    /\ game.fps_target = fps_target
    /\ out.op = "_validate_and_optimize_settings" =>
           /\ game.screen_width \in 800..1920
           /\ game.screen_height \in 600..1080
           /\ game.screen_width * game.screen_height <= 1920 * 1080

====
